---------------------------- MODULE Spec2Model ----------------------------
(***************************************************************************)
(* A model of the PJM Data Miner feed client (src/pjm/client.py):          *)
(* the retry loop of _get, the response parsing, the column normalisation  *)
(* and the output encodings of PJMDataMinerClient.                         *)
(*                                                                         *)
(* Text is modelled by TLA+ strings, read one character at a time with     *)
(* SubSeq(s, i, i) and built with \o.  Durations are in milliseconds.      *)
(***************************************************************************)
EXTENDS Integers, Sequences, FiniteSets, TLC

VARIABLES
    op,             \* the public method called: fetch_feed or fetch_gen_by_fuel
    start,          \* fetch_gen_by_fuel's start: absent, a string or a datetime
    end,            \* fetch_gen_by_fuel's end
    output_format,  \* the output_format argument
    retry_config,   \* the client's _RetryConfig: max_retries, backoff_factor
    pc,             \* where the call is: "call", "get", "process" or "done"
    params,         \* the query parameters built for the request
    frame,          \* the invocation of _get: its locals, the GETs and sleeps so far
    outcome,        \* what the call returned or raised
    name,           \* _snake_case: the column name given
    once,           \* _snake_case(name), or None before it is computed
    twice,          \* _snake_case(_snake_case(name)), or None before it is computed
    twin,           \* a second invocation of _get, run beside frame
    given,          \* the table given to _format_output
    listed,         \* its records, once encoded
    rebuilt,        \* the table rebuilt from the records
    stage,          \* the round trip: "table", "records" or "rebuilt"
    hvac_args,      \* tons_to_mcf_per_hr: its arguments tons, eff, hv_mmbtu_per_mcf
    hvac_result,    \* what it returned or raised, and the conversions it called
    fn,             \* a helper applied on its own: its name
    subject,        \* the value it is applied to
    answer          \* what it gives, or NotApplied before it is applied

callVars == <<op, start, end, output_format, retry_config, pc, params, frame, outcome>>
snakeVars == <<name, once, twice>>
twinVars == <<twin>>
recordVars == <<given, listed, rebuilt, stage>>
hvacVars == <<hvac_args, hvac_result>>
helperVars == <<fn, subject, answer>>
vars == <<op, start, end, output_format, retry_config, pc, params, frame, outcome,
          name, once, twice, twin, given, listed, rebuilt, stage, hvac_args, hvac_result,
          fn, subject, answer>>

None == "<None>"

-----------------------------------------------------------------------------
(* Characters and strings                                                  *)

UpperChars == "ABCDEFGHIJKLMNOPQRSTUVWXYZ"
LowerChars == "abcdefghijklmnopqrstuvwxyz"
DigitChars == "0123456789"

Char(s, i) == SubSeq(s, i, i)

CharsOf(s) == {Char(s, i) : i \in 1..Len(s)}

\* str.isupper() of one ASCII character
IsUpper(c) == c \in CharsOf(UpperChars)

\* str.lower() of one ASCII character
ToLower(c) ==
    IF IsUpper(c)
    THEN Char(LowerChars, CHOOSE i \in 1..26 : Char(UpperChars, i) = c)
    ELSE c

\* the strings pieces[lo], ..., pieces[hi] joined
RECURSIVE JoinRange(_, _, _)
JoinRange(pieces, lo, hi) ==
    IF lo > hi THEN ""
    ELSE IF lo = hi THEN pieces[lo]
    ELSE JoinRange(pieces, lo, (lo + hi) \div 2)
            \o JoinRange(pieces, (lo + hi) \div 2 + 1, hi)

\* "".join(pieces)
Join(pieces) == JoinRange(pieces, 1, Len(pieces))

\* the index of the first character at or after i that is not in chars
SkipChars(s, i, chars) ==
    IF i > Len(s) THEN i
    ELSE IF \A j \in i..Len(s) : Char(s, j) \in chars THEN Len(s) + 1
    ELSE CHOOSE j \in i..Len(s) :
            /\ Char(s, j) \notin chars
            /\ \A k \in i..(j - 1) : Char(s, k) \in chars

\* the index of the first occurrence of c at or after i, or 0
IndexOf(s, i, c) ==
    IF \A j \in i..Len(s) : Char(s, j) # c THEN 0
    ELSE CHOOSE j \in i..Len(s) :
            /\ Char(s, j) = c
            /\ \A k \in i..(j - 1) : Char(s, k) # c

\* str.count(c)
CountChar(s, c) == Cardinality({j \in 1..Len(s) : Char(s, j) = c})

\* str.strip(chars): drop the leading and trailing characters that are in chars
StripChars(s, chars) ==
    IF \A j \in 1..Len(s) : Char(s, j) \in chars THEN ""
    ELSE SubSeq(s, SkipChars(s, 1, chars),
                CHOOSE j \in 1..Len(s) :
                    /\ Char(s, j) \notin chars
                    /\ \A k \in (j + 1)..Len(s) : Char(s, k) \in chars)

\* needle in s (Python's substring test)
Contains(s, needle) ==
    \E i \in 1..(Len(s) - Len(needle) + 1) :
        SubSeq(s, i, i + Len(needle) - 1) = needle

-----------------------------------------------------------------------------
(* Column-name normalisation                                               *)

\* what the loop of _snake_case appends for one character
SnakeChar(c) ==
    IF IsUpper(c) THEN "_" \o ToLower(c)
    ELSE IF c \in {" ", "-"} THEN "_"
    ELSE c

\* _snake_case without the final strip("_")
SnakeCaseUnstripped(s) == Join([i \in 1..Len(s) |-> SnakeChar(Char(s, i))])

_snake_case(s) ==
    LET cleaned == [i \in 1..Len(s) |-> SnakeChar(Char(s, i))]
    IN  StripChars(Join(cleaned), {"_"})

-----------------------------------------------------------------------------
(* Values: what json.loads returns and what a table cell holds.            *)
(* t is the kind, s the text of a string, number or literal, items the     *)
(* elements of a list, the members [k, v] of a dict, or the fields of a    *)
(* timestamp <<year, month, day, hour, minute, second>>.                   *)

Val(t, s, items) == [t |-> t, s |-> s, items |-> items]

StrVal(s) == Val("str", s, <<>>)
NumVal(s) == Val("num", s, <<>>)
LitVal(s) == Val("lit", s, <<>>)
ListVal(items) == Val("list", "", items)
DictVal(items) == Val("dict", "", items)
TsVal(fields) == Val("ts", "", fields)
NaN == Val("nan", "", <<>>)
NaT == Val("nat", "", <<>>)

\* dict[k] = v: a key set twice keeps its first place and its last value
DictSet(items, k, v) ==
    IF \E n \in 1..Len(items) : items[n].k = k
    THEN [n \in 1..Len(items) |->
            IF items[n].k = k THEN [k |-> k, v |-> v] ELSE items[n]]
    ELSE Append(items, [k |-> k, v |-> v])

DictHas(items, k) == \E n \in 1..Len(items) : items[n].k = k

DictGet(items, k) == items[CHOOSE n \in 1..Len(items) : items[n].k = k].v

-----------------------------------------------------------------------------
(* json.loads, for objects, arrays, strings without escapes, numbers and   *)
(* the literals true, false and null.  A parse gives [ok, v, i]: whether   *)
(* it succeeded, the value, and the index after it.                        *)

JsonWhitespace == {" ", "\n", "\r", "\t"}
NumberChars == CharsOf(DigitChars) \cup {"-", "+", ".", "e", "E"}

ParseFail == [ok |-> FALSE, v |-> NaN, i |-> 0]
Parsed(v, i) == [ok |-> TRUE, v |-> v, i |-> i]

SkipWs(s, i) == SkipChars(s, i, JsonWhitespace)

\* a string literal whose opening quote is at i
ParseString(s, i) ==
    LET close == IndexOf(s, i + 1, "\"")
    IN  IF close = 0 \/ Contains(SubSeq(s, i + 1, close - 1), "\\")
        THEN ParseFail
        ELSE Parsed(StrVal(SubSeq(s, i + 1, close - 1)), close + 1)

ParseNumber(s, i) ==
    LET stop == SkipChars(s, i, NumberChars)
        text == SubSeq(s, i, stop - 1)
    IN  IF CharsOf(text) \cap CharsOf(DigitChars) = {}
        THEN ParseFail
        ELSE Parsed(NumVal(text), stop)

ParseLiteral(s, i) ==
    LET hits == {w \in {"true", "false", "null"} :
                    i + Len(w) - 1 <= Len(s) /\ SubSeq(s, i, i + Len(w) - 1) = w}
    IN  IF hits = {} THEN ParseFail
        ELSE LET w == CHOOSE x \in hits : TRUE IN Parsed(LitVal(w), i + Len(w))

RECURSIVE ParseValue(_, _), ParseMembers(_, _, _), ParseElements(_, _, _)

\* the value that starts at or after i
ParseValue(s, i) ==
    LET j == SkipWs(s, i)
        c == Char(s, j)
    IN  IF j > Len(s) THEN ParseFail
        ELSE IF c = "{" THEN
            IF SkipWs(s, j + 1) <= Len(s) /\ Char(s, SkipWs(s, j + 1)) = "}"
            THEN Parsed(DictVal(<<>>), SkipWs(s, j + 1) + 1)
            ELSE ParseMembers(s, j + 1, <<>>)
        ELSE IF c = "[" THEN
            IF SkipWs(s, j + 1) <= Len(s) /\ Char(s, SkipWs(s, j + 1)) = "]"
            THEN Parsed(ListVal(<<>>), SkipWs(s, j + 1) + 1)
            ELSE ParseElements(s, j + 1, <<>>)
        ELSE IF c = "\"" THEN ParseString(s, j)
        ELSE IF c \in CharsOf(DigitChars) \cup {"-"} THEN ParseNumber(s, j)
        ELSE ParseLiteral(s, j)

\* the members of an object from i on, after the members in acc
ParseMembers(s, i, acc) ==
    LET j == SkipWs(s, i)
        key == IF j <= Len(s) /\ Char(s, j) = "\"" THEN ParseString(s, j) ELSE ParseFail
        colon == SkipWs(s, key.i)
        val == IF key.ok /\ colon <= Len(s) /\ Char(s, colon) = ":"
               THEN ParseValue(s, colon + 1)
               ELSE ParseFail
        next == SkipWs(s, val.i)
        members == DictSet(acc, key.v.s, val.v)
    IN  IF ~val.ok \/ next > Len(s) THEN ParseFail
        ELSE IF Char(s, next) = "," THEN ParseMembers(s, next + 1, members)
        ELSE IF Char(s, next) = "}" THEN Parsed(DictVal(members), next + 1)
        ELSE ParseFail

\* the elements of an array from i on, after the elements in acc
ParseElements(s, i, acc) ==
    LET val == ParseValue(s, i)
        next == SkipWs(s, val.i)
    IN  IF ~val.ok \/ next > Len(s) THEN ParseFail
        ELSE IF Char(s, next) = "," THEN ParseElements(s, next + 1, Append(acc, val.v))
        ELSE IF Char(s, next) = "]" THEN Parsed(ListVal(Append(acc, val.v)), next + 1)
        ELSE ParseFail

\* json.loads(text): the whole text is one value, or JSONDecodeError
json_loads(text) ==
    LET r == ParseValue(text, 1)
    IN  IF r.ok /\ SkipWs(text, r.i) > Len(text) THEN r ELSE ParseFail

-----------------------------------------------------------------------------
(* Dates and times                                                         *)

DigitValue(c) == (CHOOSE i \in 1..10 : Char(DigitChars, i) = c) - 1

IsDigits(s) == Len(s) > 0 /\ CharsOf(s) \subseteq CharsOf(DigitChars)

RECURSIVE ToInt(_)
ToInt(s) ==
    IF Len(s) = 0 THEN 0
    ELSE 10 * ToInt(SubSeq(s, 1, Len(s) - 1)) + DigitValue(Char(s, Len(s)))

Digit(n) == Char(DigitChars, n + 1)
Pad2(n) == Digit((n \div 10) % 10) \o Digit(n % 10)
Pad4(n) == Pad2(n \div 100) \o Pad2(n % 100)

\* datetime.isoformat() of <<year, month, day, hour, minute, second>>
isoformat(f) ==
    Pad4(f[1]) \o "-" \o Pad2(f[2]) \o "-" \o Pad2(f[3]) \o "T"
        \o Pad2(f[4]) \o ":" \o Pad2(f[5]) \o ":" \o Pad2(f[6])

\* the date "YYYY-MM-DD" at the head of s
IsIsoDate(s) ==
    /\ Len(s) >= 10
    /\ IsDigits(SubSeq(s, 1, 4)) /\ Char(s, 5) = "-"
    /\ IsDigits(SubSeq(s, 6, 7)) /\ Char(s, 8) = "-"
    /\ IsDigits(SubSeq(s, 9, 10))
    /\ ToInt(SubSeq(s, 6, 7)) \in 1..12
    /\ ToInt(SubSeq(s, 9, 10)) \in 1..31

\* the time "HH:MM:SS" that ends s, after the date and a "T" or a space
IsIsoTime(s) ==
    /\ Len(s) = 19
    /\ Char(s, 11) \in {"T", " "}
    /\ IsDigits(SubSeq(s, 12, 13)) /\ Char(s, 14) = ":"
    /\ IsDigits(SubSeq(s, 15, 16)) /\ Char(s, 17) = ":"
    /\ IsDigits(SubSeq(s, 18, 19))
    /\ ToInt(SubSeq(s, 12, 13)) \in 0..23
    /\ ToInt(SubSeq(s, 15, 16)) \in 0..59
    /\ ToInt(SubSeq(s, 18, 19)) \in 0..59

IsIsoLike(s) == IsIsoDate(s) /\ (Len(s) = 10 \/ IsIsoTime(s))

\* pd.to_datetime of an ISO-8601 string: the instant's fields
ParseIso(s) ==
    <<ToInt(SubSeq(s, 1, 4)), ToInt(SubSeq(s, 6, 7)), ToInt(SubSeq(s, 9, 10)),
      IF Len(s) = 19 THEN ToInt(SubSeq(s, 12, 13)) ELSE 0,
      IF Len(s) = 19 THEN ToInt(SubSeq(s, 15, 16)) ELSE 0,
      IF Len(s) = 19 THEN ToInt(SubSeq(s, 18, 19)) ELSE 0>>

\* a < b for two instants: the first field that differs decides
RECURSIVE FieldsBefore(_, _, _)
FieldsBefore(a, b, i) ==
    IF i > Len(a) THEN FALSE
    ELSE IF a[i] # b[i] THEN a[i] < b[i]
    ELSE FieldsBefore(a, b, i + 1)

TsBefore(a, b) == FieldsBefore(a, b, 1)

\* pd.to_datetime(cell, errors="coerce") of one cell: a string that is not a
\* date, a missing value, a literal or a container is coerced to NaT; a number
\* counts nanoseconds from the epoch
ToDatetimeCell(v) ==
    IF v.t = "ts" THEN v
    ELSE IF v.t = "str" /\ IsIsoLike(v.s) THEN TsVal(ParseIso(v.s))
    ELSE IF v.t = "num" THEN Val("ts", "epoch_ns:" \o v.s, <<>>)
    ELSE NaT

-----------------------------------------------------------------------------
(* Tables (pandas.DataFrame): the column names in order and the rows, each *)
(* row holding one cell per column.                                        *)

Table(columns, rows) == [columns |-> columns, rows |-> rows]

EmptyTable == Table(<<>>, <<>>)

ColumnSet(df) == {df.columns[c] : c \in 1..Len(df.columns)}

\* df.rename(columns={original: target})
RenameColumn(df, original, target) ==
    Table([c \in 1..Len(df.columns) |->
              IF df.columns[c] = original THEN target ELSE df.columns[c]],
          df.rows)

\* df[c] = pd.to_datetime(df[c], errors="coerce") for the column at c
ToDatetimeColumn(df, c) ==
    Table(df.columns,
          [r \in 1..Len(df.rows) |->
              [k \in 1..Len(df.columns) |->
                  IF k = c THEN ToDatetimeCell(df.rows[r][k]) ELSE df.rows[r][k]]])

\* the keys of the records in the order they first appear
RECURSIVE KeysOf(_, _, _, _)
KeysOf(records, r, m, acc) ==
    IF r > Len(records) THEN acc
    ELSE IF m > Len(records[r].items) THEN KeysOf(records, r + 1, 1, acc)
    ELSE LET k == records[r].items[m].k
         IN  KeysOf(records, r, m + 1,
                    IF \E n \in 1..Len(acc) : acc[n] = k THEN acc ELSE Append(acc, k))

\* pd.DataFrame.from_records(records) of a list of dicts: a column per key,
\* a row per record, NaN where a record lacks the key; with no key at all
\* there is no array to take a length from, and the table is empty.  (A list
\* with an element that is no dict is not among the bodies drawn here.)
from_records(records) ==
    LET columns == KeysOf(records, 1, 1, <<>>)
    IN  IF columns = <<>> THEN EmptyTable
        ELSE Table(columns,
                   [r \in 1..Len(records) |->
                       [c \in 1..Len(columns) |->
                           IF DictHas(records[r].items, columns[c])
                           THEN DictGet(records[r].items, columns[c])
                           ELSE NaN]])

RECURSIVE RowDict(_, _, _, _)
RowDict(columns, row, c, acc) ==
    IF c > Len(columns) THEN DictVal(acc)
    ELSE RowDict(columns, row, c + 1, DictSet(acc, columns[c], row[c]))

\* records that leave out the keys whose value is missing
RECURSIVE RowDictDropna(_, _, _, _)
RowDictDropna(columns, row, c, acc) ==
    IF c > Len(columns) THEN DictVal(acc)
    ELSE RowDictDropna(columns, row, c + 1,
                       IF row[c] = NaN THEN acc ELSE DictSet(acc, columns[c], row[c]))

RecordsDropna(df) ==
    [r \in 1..Len(df.rows) |-> RowDictDropna(df.columns, df.rows[r], 1, <<>>)]

\* df.to_dict(orient="records"): one mapping per row, keyed by column name
to_dict_records(df) ==
    [r \in 1..Len(df.rows) |-> RowDict(df.columns, df.rows[r], 1, <<>>)]

-----------------------------------------------------------------------------
(* Response parsing                                                        *)

Whitespace == {" ", "\n", "\r", "\t"}

\* str.strip()
Strip(s) == StripChars(s, Whitespace)

\* str.splitlines(), for lines that end in "\n"
RECURSIVE SplitLines(_)
SplitLines(s) ==
    IF Len(s) = 0 THEN <<>>
    ELSE LET nl == IndexOf(s, 1, "\n")
         IN  IF nl = 0 THEN <<s>>
             ELSE <<SubSeq(s, 1, nl - 1)>> \o SplitLines(SubSeq(s, nl + 1, Len(s)))

\* seq[:n]
Take(seq, n) == SubSeq(seq, 1, IF Len(seq) < n THEN Len(seq) ELSE n)

SampleLines == 3

_looks_like_csv(text) ==
    LET sample == Take(SplitLines(Strip(text)), SampleLines)
        delimiter_counts == [n \in 1..Len(sample) |-> CountChar(sample[n], ",")]
    IN  IF sample = <<>> THEN FALSE
        ELSE \E n \in 1..Len(delimiter_counts) : delimiter_counts[n] > 0

\* the fields of one line of delimited text.  A quote that does not open a
\* field is an ordinary character; no body drawn here opens a field with one.
RECURSIVE SplitFields(_)
SplitFields(line) ==
    LET comma == IndexOf(line, 1, ",")
    IN  IF comma = 0 THEN <<line>>
        ELSE <<SubSeq(line, 1, comma - 1)>> \o SplitFields(SubSeq(line, comma + 1, Len(line)))

\* the lines that are not blank, in order
RECURSIVE NonBlankLines(_)
NonBlankLines(lines) ==
    IF lines = <<>> THEN <<>>
    ELSE (IF Strip(Head(lines)) # "" THEN <<Head(lines)>> ELSE <<>>)
            \o NonBlankLines(Tail(lines))

IsNumberText(s) ==
    /\ Len(s) > 0
    /\ CharsOf(s) \subseteq CharsOf(DigitChars) \cup {"-", "."}
    /\ CharsOf(s) \cap CharsOf(DigitChars) # {}
    /\ CountChar(s, ".") <= 1
    /\ CountChar(SubSeq(s, 2, Len(s)), "-") = 0

CsvFail(exc) == [ok |-> FALSE, exc |-> exc, df |-> EmptyTable]
ParsedTable(df) == [ok |-> TRUE, exc |-> None, df |-> df]

\* field k of data line r, empty where the line is short
CsvField(data, r, k) == IF k <= Len(data[r]) THEN data[r][k] ELSE ""

\* a column is numeric when every field it has is a number
CsvNumeric(data, k) ==
    \A r \in 1..Len(data) : CsvField(data, r, k) \in {""} \/ IsNumberText(CsvField(data, r, k))

\* an empty field is NaN
CsvCellAt(data, r, k) ==
    IF CsvField(data, r, k) = "" THEN NaN
    ELSE IF CsvNumeric(data, k) THEN NumVal(CsvField(data, r, k))
    ELSE StrVal(CsvField(data, r, k))

\* the fields a line may have: those of the header, or of the first data line
\* when it is longer (its leading fields are then the row labels)
CsvWidth(header, data) ==
    IF Len(data) > 0 /\ Len(data[1]) > Len(header) THEN Len(data[1]) ELSE Len(header)

\* a line longer than the lines before it is a ParserError; a short line is
\* padded with NaN
CsvFrame(header, data, width) ==
    IF \E r \in 1..Len(data) : Len(data[r]) > width THEN CsvFail("ParserError")
    ELSE ParsedTable(Table(header,
            [r \in 1..Len(data) |->
                [c \in 1..Len(header) |-> CsvCellAt(data, r, c + width - Len(header))]]))

CsvRows(header, data) == CsvFrame(header, data, CsvWidth(header, data))

\* the first line is the header; no line at all is an EmptyDataError
CsvLines(lines) ==
    IF lines = <<>> THEN CsvFail("EmptyDataError")
    ELSE CsvRows(SplitFields(lines[1]),
                 [n \in 1..(Len(lines) - 1) |-> SplitFields(lines[n + 1])])

\* pd.read_csv(io.StringIO(text)): blank lines are skipped
_parse_csv(text) == CsvLines(NonBlankLines(SplitLines(text)))

\* the rows json.loads gives: the first member of an object that is a list,
\* a list itself, and nothing for any other value
JsonRecordsLastList(data) ==
    IF data.t = "dict" THEN
        IF \E n \in 1..Len(data.items) : data.items[n].v.t = "list"
        THEN data.items[CHOOSE n \in 1..Len(data.items) :
                            /\ data.items[n].v.t = "list"
                            /\ \A m \in (n + 1)..Len(data.items) : data.items[m].v.t # "list"].v.items
        ELSE <<>>
    ELSE IF data.t = "list" THEN data.items
    ELSE <<>>

JsonRecords(data) ==
    IF data.t = "dict" THEN
        IF \E n \in 1..Len(data.items) : data.items[n].v.t = "list"
        THEN data.items[CHOOSE n \in 1..Len(data.items) :
                            /\ data.items[n].v.t = "list"
                            /\ \A m \in 1..(n - 1) : data.items[m].v.t # "list"].v.items
        ELSE <<>>
    ELSE IF data.t = "list" THEN data.items
    ELSE <<>>

JsonTable(loaded) ==
    IF ~loaded.ok THEN CsvFail("JSONDecodeError")
    ELSE ParsedTable(from_records(JsonRecords(loaded.v)))

_parse_json(text) == JsonTable(json_loads(text))

\* str.lower() of a string
LowerStr(s) == Join([i \in 1..Len(s) |-> ToLower(Char(s, i))])

\* _parse_response: [ok, exc, df]; exc is the error the PJMDataFetchError wraps
\* "csv" in content_type or self._looks_like_csv(text)
TreatedAsCsv(response) ==
    LET content_type == LowerStr(response.content_type)
        text == response.text
    IN  Contains(content_type, "csv") \/ _looks_like_csv(text)

_parse_response(response) ==
    IF TreatedAsCsv(response) THEN _parse_csv(response.text) ELSE _parse_json(response.text)

-----------------------------------------------------------------------------
(* Normalisation and output                                                *)

\* df.rename(columns=rename_map): every column name through _snake_case
_normalize_columns(df) ==
    Table([c \in 1..Len(df.columns) |-> _snake_case(df.columns[c])], df.rows)

TimestampKeys == {"date", "time", "timestamp"}

\* _parse_timestamps: a column whose name holds one of the keys is replaced by
\* its parsed cells unless every one of them is NaT (as when there is no row)
_parse_timestamps(df) ==
    LET IsTimestampColumn(c) == \E key \in TimestampKeys : Contains(df.columns[c], key)
        Parses(c) == \E r \in 1..Len(df.rows) : ToDatetimeCell(df.rows[r][c]) # NaT
    IN  Table(df.columns,
              [r \in 1..Len(df.rows) |->
                  [c \in 1..Len(df.columns) |->
                      IF IsTimestampColumn(c) /\ Parses(c)
                      THEN ToDatetimeCell(df.rows[r][c])
                      ELSE df.rows[r][c]]])

\* column_map of _normalize_gen_by_fuel, in its order
column_map ==
    << <<"datetime_beginning_utc", "timestamp">>,
       <<"datetime_beginning_ept", "timestamp_ept">>,
       <<"fueltype", "fuel_type">>,
       <<"mw", "mw">> >>

\* if original in normalized.columns: normalized.rename(columns={original: target})
RenameIfPresent(df, original, target) ==
    IF original \in ColumnSet(df) THEN RenameColumn(df, original, target) ELSE df

\* the renames of column_map from entry n on, one after the other
RECURSIVE ApplyColumnMap(_, _)
ApplyColumnMap(df, n) ==
    IF n > Len(column_map) THEN df
    ELSE ApplyColumnMap(RenameIfPresent(df, column_map[n][1], column_map[n][2]), n + 1)

\* _normalize_gen_by_fuel: [ok, exc, df].  With two columns named timestamp
\* normalized["timestamp"] is a table, which pd.to_datetime refuses.
ReparseTimestamp(normalized) ==
    LET stamps == {c \in 1..Len(normalized.columns) : normalized.columns[c] = "timestamp"}
    IN  IF stamps = {} THEN ParsedTable(normalized)
        ELSE IF Cardinality(stamps) > 1 THEN CsvFail("ValueError")
        ELSE ParsedTable(ToDatetimeColumn(normalized, CHOOSE c \in stamps : TRUE))

_normalize_gen_by_fuel(df) == ReparseTimestamp(ApplyColumnMap(_normalize_columns(df), 1))

\* one cell of df.to_csv: a missing value is empty, text with a delimiter, a
\* quote or a line break is quoted and its quotes doubled, a timestamp is
\* written as date and time
CsvCell(v) ==
    IF v.t \in {"nan", "nat"} THEN ""
    ELSE IF v.t = "ts" /\ v.items # <<>> THEN
        Pad4(v.items[1]) \o "-" \o Pad2(v.items[2]) \o "-" \o Pad2(v.items[3]) \o " "
            \o Pad2(v.items[4]) \o ":" \o Pad2(v.items[5]) \o ":" \o Pad2(v.items[6])
    ELSE IF v.t \in {"str", "num", "lit", "ts"} THEN
        IF CharsOf(v.s) \cap {",", "\"", "\n"} # {}
        THEN "\"" \o Join([i \in 1..Len(v.s) |->
                              IF Char(v.s, i) = "\"" THEN "\"\"" ELSE Char(v.s, i)]) \o "\""
        ELSE v.s
    ELSE "<" \o v.t \o ">"

\* ",".join(fields)
JoinFields(fields) ==
    Join([n \in 1..Len(fields) |-> IF n = 1 THEN fields[n] ELSE "," \o fields[n]])

\* the lines, each ended by "\n"
JoinLines(lines) == Join([n \in 1..Len(lines) |-> lines[n] \o "\n"])

\* df.to_csv(index=False): a header line, then a line per row
to_csv(df) ==
    JoinLines(<<JoinFields([c \in 1..Len(df.columns) |-> CsvCell(StrVal(df.columns[c]))])>>
              \o [r \in 1..Len(df.rows) |->
                    JoinFields([c \in 1..Len(df.columns) |-> CsvCell(df.rows[r][c])])])

Formatted(value) == [ok |-> TRUE, value |-> value]
FormatFail == [ok |-> FALSE, value |-> None]

\* _format_output: [ok, value]; not ok is the ValueError of the last line
_format_output(df, fmt) ==
    IF fmt = "dataframe" THEN Formatted(df)
    ELSE IF fmt = "json" THEN Formatted(to_dict_records(df))
    ELSE IF fmt = "csv" THEN Formatted(to_csv(df))
    ELSE FormatFail

-----------------------------------------------------------------------------
(* The retry loop of _get.  A frame holds the loop's locals and what the   *)
(* call has done on the wire: at is "request" before the GET of iteration  *)
(* attempt, "sleep" before time.sleep, "returned" or "raised" at the end;  *)
(* log lists the GETs (v = 1 when the response was returned, else 0) and   *)
(* the sleeps (v = the milliseconds slept) in order; wire is the last      *)
(* answer of the transport.                                                *)

NoResponse == [kind |-> "none", status |-> 0, content_type |-> "", text |-> "", exc |-> None]

\* the transport answers with a response
Response(status, content_type, text) ==
    [kind |-> "response", status |-> status, content_type |-> content_type,
     text |-> text, exc |-> None]

\* requests.get raises a requests.RequestException
TransportError(exc) ==
    [kind |-> "error", status |-> 0, content_type |-> "", text |-> "", exc |-> exc]

GetEvent(v) == [e |-> "GET", v |-> v]
SleepEvent(ms) == [e |-> "sleep", v |-> ms]

RECURSIVE Pow2(_)
Pow2(n) == IF n = 0 THEN 1 ELSE 2 * Pow2(n - 1)

FallbackSleep == 1000

\* a sleep_time that does not grow with the attempt
SleepTimeFlat(cfg, attempt) == cfg.backoff_factor

\* sleep_time = retry_config.backoff_factor * (2**attempt)
SleepTime(cfg, attempt) == cfg.backoff_factor * Pow2(attempt)

\* time.sleep(sleep_time or 1.0): what is slept
SleepArgument(sleep_time) == IF sleep_time = 0 THEN FallbackSleep ELSE sleep_time

\* _get is not called yet
NotEntered ==
    [at |-> "idle", attempt |-> 0, last_exc |-> None, response |-> NoResponse,
     log |-> <<>>, wire |-> NoResponse]

\* a loop that tests its range after the first iteration
GetEnterUnguarded(cfg) ==
    [at |-> "request",
     attempt |-> 0, last_exc |-> None, response |-> NoResponse,
     log |-> <<>>, wire |-> NoResponse]

\* the for loop is entered; range(max_retries) is empty for max_retries <= 0
GetEnter(cfg) ==
    [at |-> IF cfg.max_retries > 0 THEN "request" ELSE "raised",
     attempt |-> 0, last_exc |-> None, response |-> NoResponse,
     log |-> <<>>, wire |-> NoResponse]

\* an except clause that keeps the first error it saw
GetFailedKeepsFirst(f, cfg, exc) ==
    [f EXCEPT !.last_exc = IF f.last_exc = None THEN exc ELSE f.last_exc,
              !.log = Append(f.log, GetEvent(0)),
              !.at = IF f.attempt = cfg.max_retries - 1 THEN "raised" ELSE "sleep"]

\* the except clause: the last attempt breaks out of the loop to the final
\* raise, any other goes on to time.sleep
GetFailed(f, cfg, exc) ==
    [f EXCEPT !.last_exc = exc,
              !.log = Append(f.log, GetEvent(0)),
              !.at = IF f.attempt = cfg.max_retries - 1 THEN "raised" ELSE "sleep"]

\* f"HTTP {response.status_code} ..." for a status of three digits
HttpError(status) == "HTTP " \o Digit(status \div 100) \o Pad2(status % 100)

\* a status check that refuses redirects too
StatusRefusedFrom300(status) == status >= 300

\* the status a response is refused for
StatusRefused(status) == status >= 400

\* a try block that gives up at once on a client error
GetAttemptFailFast(f, cfg, reply) ==
    LET g == [f EXCEPT !.wire = reply]
    IN  IF reply.kind = "error" THEN GetFailed(g, cfg, reply.exc)
        ELSE IF reply.status >= 400 /\ reply.status < 500
             THEN [g EXCEPT !.last_exc = HttpError(reply.status),
                            !.log = Append(g.log, GetEvent(0)),
                            !.at = "raised"]
        ELSE IF StatusRefused(reply.status) THEN GetFailed(g, cfg, HttpError(reply.status))
        ELSE [g EXCEPT !.response = reply,
                       !.log = Append(g.log, GetEvent(1)),
                       !.at = "returned"]

\* one iteration's try block, the transport answering reply
GetAttempt(f, cfg, reply) ==
    LET g == [f EXCEPT !.wire = reply]
    IN  IF reply.kind = "error" THEN GetFailed(g, cfg, reply.exc)
        ELSE IF StatusRefused(reply.status) THEN GetFailed(g, cfg, HttpError(reply.status))
        ELSE IF 500 <= reply.status /\ reply.status < 600
             THEN GetFailed(g, cfg, "Server error")
        ELSE [g EXCEPT !.response = reply,
                       !.log = Append(g.log, GetEvent(1)),
                       !.at = "returned"]

\* time.sleep(sleep_time or 1.0), then the next iteration of
\* range(retry_config.max_retries), or the final raise when the range is used up
GetSleep(f, cfg) ==
    [f EXCEPT !.log = Append(f.log, SleepEvent(SleepArgument(SleepTime(cfg, f.attempt)))),
              !.attempt = f.attempt + 1,
              !.at = IF f.attempt + 1 < cfg.max_retries THEN "request" ELSE "raised"]

\* the events of kind e in a log
Events(log, e) == {n \in 1..Len(log) : log[n].e = e}
Gets(f) == Cardinality(Events(f.log, "GET"))
Sleeps(f) == [n \in 1..Cardinality(Events(f.log, "sleep")) |->
                 f.log[CHOOSE m \in Events(f.log, "sleep") :
                          Cardinality({k \in Events(f.log, "sleep") : k <= m}) = n].v]

-----------------------------------------------------------------------------
(* The public calls                                                        *)

Pending == [kind |-> "pending", msg |-> "", cause |-> None, value |-> None]
Returned(value) == [kind |-> "returned", msg |-> "", cause |-> None, value |-> value]
Raised(kind, msg, cause) == [kind |-> kind, msg |-> msg, cause |-> cause, value |-> None]

RangeError == "end must be greater than or equal to start"
FormatError == "Unknown output_format"
FetchError == "Failed to fetch feed"
ParseError == "Unable to parse PJM response"
AssembleError == "cannot assemble with duplicate keys"

Absent == Val("none", "", <<>>)
DatetimeArg(fields) == Val("datetime", "", fields)

\* _coerce_datetime: a datetime in ISO form, anything else through str()
_coerce_datetime(value) ==
    IF value.t = "datetime" THEN isoformat(value.items) ELSE value.s

\* the params of fetch_gen_by_fuel: a sequence of <<name, value>>
GenParams(s, e) ==
    (IF s # Absent THEN << <<"start", _coerce_datetime(s)>> >> ELSE <<>>)
        \o (IF e # Absent THEN << <<"end", _coerce_datetime(e)>> >> ELSE <<>>)

HasParam(ps, k) == \E n \in 1..Len(ps) : ps[n][1] = k
Param(ps, k) == ps[CHOOSE n \in 1..Len(ps) : ps[n][1] = k][2]

\* a date-range check that refuses an end equal to the start
RangeNotAscending(ps) ==
    /\ HasParam(ps, "start")
    /\ HasParam(ps, "end")
    /\ ~TsBefore(ParseIso(Param(ps, "start")), ParseIso(Param(ps, "end")))

\* the date-range check of fetch_gen_by_fuel: TRUE when it raises
RangeInverted(ps) ==
    /\ HasParam(ps, "start")
    /\ HasParam(ps, "end")
    /\ LET start_ts == ParseIso(Param(ps, "start"))
           end_ts == ParseIso(Param(ps, "end"))
       IN  TsBefore(end_ts, start_ts)

\* what _format_output gives is returned, or its ValueError raised
FormatResult(out) ==
    IF ~out.ok THEN Raised("ValueError", FormatError, None) ELSE Returned(out.value)

\* fetch_feed once the response is parsed: a parse that failed is raised, a
\* table is normalised and encoded
FeedOutput(parsed, fmt) ==
    IF ~parsed.ok THEN Raised("PJMDataFetchError", ParseError, parsed.exc)
    ELSE FormatResult(_format_output(_parse_timestamps(_normalize_columns(parsed.df)), fmt))

\* what fetch_feed does with the response _get returned
FeedResult(response, fmt) == FeedOutput(_parse_response(response), fmt)

GenByFuelFormat(normalized, fmt) ==
    IF ~normalized.ok THEN Raised("ValueError", AssembleError, None)
    ELSE FormatResult(_format_output(normalized.df, fmt))

\* fetch_gen_by_fuel once fetch_feed is back: what it raised goes on to the caller
GenByFuelOutput(fetched, fmt) ==
    IF fetched.kind # "returned" THEN fetched
    ELSE GenByFuelFormat(_normalize_gen_by_fuel(fetched.value), fmt)

\* what fetch_gen_by_fuel does with the response _get returned
GenByFuelResult(response, fmt) == GenByFuelOutput(FeedResult(response, "dataframe"), fmt)

\* _get's final raise, from last_exc
FetchFailure(f) == Raised("PJMDataFetchError", FetchError, f.last_exc)

\* how the call stands once _get is at f
AfterGet(f) ==
    IF f.at = "raised" THEN [pc |-> "done", outcome |-> FetchFailure(f)]
    ELSE IF f.at = "returned" THEN [pc |-> "process", outcome |-> Pending]
    ELSE [pc |-> "get", outcome |-> Pending]

-----------------------------------------------------------------------------
(* The HVAC conversions (src/utility_calculator).  A number is the exact   *)
(* fraction n/d, d positive and the fraction in lowest terms.              *)

RECURSIVE GCD(_, _)
GCD(a, b) == IF b = 0 THEN a ELSE GCD(b, a % b)

Abs(x) == IF x < 0 THEN -x ELSE x

\* the number n/d, for d other than 0
Rat(n, d) ==
    LET g == GCD(Abs(n), Abs(d))
        sign == IF d < 0 THEN -1 ELSE 1
    IN  [n |-> sign * (n \div g), d |-> sign * (d \div g)]

RatInt(n) == Rat(n, 1)

\* a * b
RatMul(a, b) == LET x == Rat(a.n, b.d) y == Rat(b.n, a.d) IN Rat(x.n * y.n, x.d * y.d)

\* a / b, for b other than 0
RatDiv(a, b) == RatMul(a, Rat(b.d, b.n))

BTUH_PER_TON == 12000
BTU_PER_MMBTU == 1000000
HEATING_VALUE_MMBTU_PER_MCF == Rat(1035, 1000)

tons_to_btuh(tons) == RatMul(tons, RatInt(BTUH_PER_TON))

btuh_to_mmbtuh(btuh) == RatDiv(btuh, RatInt(BTU_PER_MMBTU))

\* mmbtu / hv_mmbtu_per_mcf: [ok, value], not ok for the ZeroDivisionError
mmbtu_to_mcf(mmbtu, hv_mmbtu_per_mcf) ==
    IF hv_mmbtu_per_mcf.n = 0 THEN [ok |-> FALSE, value |-> RatInt(0)]
    ELSE [ok |-> TRUE, value |-> RatDiv(mmbtu, hv_mmbtu_per_mcf)]

HvacPending == [kind |-> "pending", value |-> RatInt(0), calls |-> <<>>]

\* a guard that lets an efficiency of zero through
EffNegative(eff) == eff.n < 0

\* if eff <= 0
EffRefused(eff) == eff.n <= 0

\* the body of tons_to_mcf_per_hr after the guard: the three conversions in
\* the order they are called; eff is positive here
HvacCompute(tons, eff, hv_mmbtu_per_mcf) ==
    LET btuh_required == tons_to_btuh(tons)
        mmbtuh_required == btuh_to_mmbtuh(btuh_required)
        called == <<"tons_to_btuh", "btuh_to_mmbtuh", "mmbtu_to_mcf">>
    IN  IF eff.n = 0
        THEN [kind |-> "ZeroDivisionError", value |-> RatInt(0),
              calls |-> <<"tons_to_btuh", "btuh_to_mmbtuh">>]
        ELSE LET mcf == mmbtu_to_mcf(RatDiv(mmbtuh_required, eff), hv_mmbtu_per_mcf)
             IN  IF mcf.ok
                 THEN [kind |-> "returned", value |-> mcf.value, calls |-> called]
                 ELSE [kind |-> "ZeroDivisionError", value |-> RatInt(0), calls |-> called]

tons_to_mcf_per_hr(tons, eff, hv_mmbtu_per_mcf) ==
    IF EffRefused(eff)
    THEN [kind |-> "ValueError", value |-> RatInt(0), calls |-> <<>>]
    ELSE HvacCompute(tons, eff, hv_mmbtu_per_mcf)

-----------------------------------------------------------------------------
(* The calls, the configurations and the transport's answers drawn         *)

MaxRetries == 3

Ops == {"fetch_feed", "fetch_gen_by_fuel"}

RecognizedFormats == {"dataframe", "json", "csv"}
OutputFormats == RecognizedFormats \cup {"xml"}

BackoffFactors == {0, 500, 1000}

DateArgs ==
    {Absent, StrVal("2024-01-01T00:00:00"), DatetimeArg(<<2024, 1, 1, 12, 30, 0>>),
     StrVal("2024-01-02")}

\* the body of the end-to-end scenario: one JSON object on one line
EndToEndBody ==
    "{\"items\": [{\"datetime_beginning_utc\": \"2024-01-01T00:00:00\", \"fuelType\": \"Gas\", \"mw\": \"100.5\"}]}"

\* the same rows, one member per line and no comma in the first three lines
SpreadBody ==
    "{\n\"items\":\n[\n{\"datetime_beginning_utc\": \"2024-01-01T00:00:00\", \"fuelType\": \"Gas\", \"mw\": \"100.5\"}]}"

GoodCsvBody == "datetime_beginning_utc,FuelType,mw\n2024-01-01T00:00:00,Gas,100.5\n"

Failures ==
    {TransportError("ConnectionError"),
     Response(400, "text/html", "Bad Request"),
     Response(500, "text/html", "")}

Successes ==
    {Response(200, "application/json", EndToEndBody),
     Response(200, "application/json", SpreadBody),
     Response(200, "text/csv", GoodCsvBody),
     Response(200, "application/json", "{\"items\": ["),
     Response(200, "text/plain", "a,b\n1,2\n3,4,5\n"),
     Response(399, "application/json", "[]")}

Replies == Failures \cup Successes

-----------------------------------------------------------------------------
(* A call of fetch_feed or fetch_gen_by_fuel                               *)

SnakeIdle == name = "" /\ once = None /\ twice = None

TwinIdle == twin = NotEntered

RecordsIdle ==
    given = EmptyTable /\ listed = <<>> /\ rebuilt = EmptyTable /\ stage = "idle"

NotApplied == [applied |-> FALSE]

HelperIdle == fn = None /\ subject = None /\ answer = NotApplied

HvacIdle ==
    /\ hvac_args = [tons |-> RatInt(0), eff |-> RatInt(1), hv |-> RatInt(1)]
    /\ hvac_result = HvacPending

Init ==
    /\ op \in Ops
    /\ start \in (IF op = "fetch_gen_by_fuel" THEN DateArgs ELSE {Absent})
    /\ end \in (IF op = "fetch_gen_by_fuel" THEN DateArgs ELSE {Absent})
    /\ output_format \in OutputFormats
    /\ retry_config \in [max_retries : 0..MaxRetries, backoff_factor : BackoffFactors]
    /\ pc = "call"
    /\ params = <<>>
    /\ frame = NotEntered
    /\ outcome = Pending
    /\ SnakeIdle
    /\ TwinIdle
    /\ RecordsIdle
    /\ HvacIdle
    /\ HelperIdle

\* the call up to its first GET: fetch_gen_by_fuel builds params and checks the
\* date range, then fetch_feed enters _get
Call ==
    /\ pc = "call"
    /\ LET ps == IF op = "fetch_gen_by_fuel" THEN GenParams(start, end) ELSE <<>>
           f == GetEnter(retry_config)
       IN  /\ params' = ps
           /\ IF RangeInverted(ps)
              THEN /\ frame' = frame
                   /\ pc' = "done"
                   /\ outcome' = Raised("ValueError", RangeError, None)
              ELSE /\ frame' = f
                   /\ pc' = AfterGet(f).pc
                   /\ outcome' = AfterGet(f).outcome
    /\ UNCHANGED <<op, start, end, output_format, retry_config, snakeVars, twinVars,
                   recordVars, hvacVars, helperVars>>

\* requests.get answers, and _get returns, raises or goes on to sleep
Request ==
    /\ pc = "get"
    /\ frame.at = "request"
    /\ \E reply \in Replies :
          LET f == GetAttempt(frame, retry_config, reply)
          IN  /\ frame' = f
              /\ pc' = AfterGet(f).pc
              /\ outcome' = AfterGet(f).outcome
    /\ UNCHANGED <<op, start, end, output_format, retry_config, params, snakeVars,
                   twinVars, recordVars, hvacVars, helperVars>>

\* time.sleep returns
Sleep ==
    /\ pc = "get"
    /\ frame.at = "sleep"
    /\ LET f == GetSleep(frame, retry_config)
       IN  /\ frame' = f
           /\ pc' = AfterGet(f).pc
           /\ outcome' = AfterGet(f).outcome
    /\ UNCHANGED <<op, start, end, output_format, retry_config, params, snakeVars,
                   twinVars, recordVars, hvacVars, helperVars>>

\* a call that goes back to the GET when the body does not parse
ProcessRetrying ==
    /\ pc = "process"
    /\ LET result == IF op = "fetch_gen_by_fuel"
                     THEN GenByFuelResult(frame.response, output_format)
                     ELSE FeedResult(frame.response, output_format)
           again == result.kind = "PJMDataFetchError"
                        /\ frame.attempt + 1 < retry_config.max_retries
       IN  /\ outcome' = IF again THEN Pending ELSE result
           /\ pc' = IF again THEN "get" ELSE "done"
           /\ frame' = IF again
                       THEN [frame EXCEPT !.at = "request", !.attempt = frame.attempt + 1]
                       ELSE frame
    /\ UNCHANGED <<op, start, end, output_format, retry_config, params, snakeVars,
                   twinVars, recordVars, hvacVars, helperVars>>

\* the rest of the call once _get has returned the response
Process ==
    /\ pc = "process"
    /\ outcome' = IF op = "fetch_gen_by_fuel"
                  THEN GenByFuelResult(frame.response, output_format)
                  ELSE FeedResult(frame.response, output_format)
    /\ pc' = "done"
    /\ UNCHANGED <<op, start, end, output_format, retry_config, params, frame, snakeVars,
                   twinVars, recordVars, hvacVars, helperVars>>

Next == Call \/ Request \/ Sleep \/ Process

Spec == Init /\ [][Next]_vars

-----------------------------------------------------------------------------
(* A call of _get on its own                                               *)

InitGet ==
    /\ op = "_get"
    /\ start = Absent
    /\ end = Absent
    /\ output_format = "dataframe"
    /\ retry_config \in [max_retries : 0..MaxRetries, backoff_factor : BackoffFactors]
    /\ pc = "call"
    /\ params = <<>>
    /\ frame = NotEntered
    /\ outcome = Pending
    /\ SnakeIdle
    /\ TwinIdle
    /\ RecordsIdle
    /\ HvacIdle
    /\ HelperIdle

\* return response: the caller has the response _get returned, frame.response;
\* the outcome names it by its body
Return ==
    /\ op = "_get"
    /\ pc = "process"
    /\ outcome' = Returned(frame.response.text)
    /\ pc' = "done"
    /\ UNCHANGED <<op, start, end, output_format, retry_config, params, frame, snakeVars,
                   twinVars, recordVars, hvacVars, helperVars>>

NextGet == Call \/ Request \/ Sleep \/ Return

\* the interpreter runs the call to its end: requests.get answers or raises
\* within its timeout, and time.sleep returns
SpecGet == InitGet /\ [][NextGet]_vars /\ WF_vars(NextGet)

-----------------------------------------------------------------------------
(* Column names drawn for _snake_case                                      *)

MaxNameLen == 3

NameChars == {"a", "z", "F", "T", "7", " ", "-", "_"}

RECURSIVE NamesOfLen(_)
NamesOfLen(n) ==
    IF n = 0 THEN {""}
    ELSE {c \o s : c \in NameChars, s \in NamesOfLen(n - 1)}

Names == UNION {NamesOfLen(n) : n \in 0..MaxNameLen} \cup {"FuelType"}

CallIdle ==
    /\ op = None /\ start = Absent /\ end = Absent /\ output_format = None
    /\ retry_config = [max_retries |-> 0, backoff_factor |-> 0]
    /\ pc = "idle" /\ params = <<>> /\ frame = NotEntered /\ outcome = Pending

InitSnake ==
    /\ name \in Names
    /\ once = None
    /\ twice = None
    /\ CallIdle
    /\ TwinIdle
    /\ RecordsIdle
    /\ HvacIdle
    /\ HelperIdle

\* the column name is normalised
SnakeOnce ==
    /\ once = None
    /\ once' = _snake_case(name)
    /\ UNCHANGED <<name, twice, callVars, twinVars, recordVars, hvacVars, helperVars>>

\* the normalised name is normalised again
SnakeTwice ==
    /\ once # None
    /\ twice = None
    /\ twice' = _snake_case(once)
    /\ UNCHANGED <<name, once, callVars, twinVars, recordVars, hvacVars, helperVars>>

NextSnake == SnakeOnce \/ SnakeTwice

SpecSnake == InitSnake /\ [][NextSnake]_vars

-----------------------------------------------------------------------------
(* Two invocations of _get under one configuration, on transports whose    *)
(* answers differ only in the way an attempt fails                         *)

\* a transport that answers s where another answers r: the same response, or
\* a transport error or status of 400 and more in place of another
Alike(r, s) ==
    \/ r = s
    \/ /\ r.kind = "error" \/ r.status >= 400
       /\ s.kind = "error" \/ s.status >= 400

InitTwin ==
    /\ op = "_get" /\ start = Absent /\ end = Absent /\ output_format = None
    /\ retry_config \in [max_retries : 0..MaxRetries, backoff_factor : BackoffFactors]
    /\ pc = "twin" /\ params = <<>> /\ outcome = Pending
    /\ frame = NotEntered
    /\ twin = NotEntered
    /\ SnakeIdle
    /\ RecordsIdle
    /\ HvacIdle
    /\ HelperIdle

\* both invocations enter the loop
TwinEnter ==
    /\ pc = "twin"
    /\ frame.at = "idle"
    /\ frame' = GetEnter(retry_config)
    /\ twin' = GetEnter(retry_config)
    /\ UNCHANGED <<op, start, end, output_format, retry_config, pc, params, outcome,
                   snakeVars, recordVars, hvacVars, helperVars>>

\* each invocation that is at its GET is answered, one transport like the other
TwinRequest ==
    /\ pc = "twin"
    /\ frame.at = "request" \/ twin.at = "request"
    /\ \E r \in Replies, s \in Replies :
          /\ Alike(r, s)
          /\ frame' = IF frame.at = "request" THEN GetAttempt(frame, retry_config, r)
                      ELSE frame
          /\ twin' = IF twin.at = "request" THEN GetAttempt(twin, retry_config, s)
                     ELSE twin
    /\ UNCHANGED <<op, start, end, output_format, retry_config, pc, params, outcome,
                   snakeVars, recordVars, hvacVars, helperVars>>

\* each invocation that is at time.sleep sleeps
TwinSleep ==
    /\ pc = "twin"
    /\ frame.at # "request" /\ twin.at # "request"
    /\ frame.at = "sleep" \/ twin.at = "sleep"
    /\ frame' = IF frame.at = "sleep" THEN GetSleep(frame, retry_config) ELSE frame
    /\ twin' = IF twin.at = "sleep" THEN GetSleep(twin, retry_config) ELSE twin
    /\ UNCHANGED <<op, start, end, output_format, retry_config, pc, params, outcome,
                   snakeVars, recordVars, hvacVars, helperVars>>

NextTwin == TwinEnter \/ TwinRequest \/ TwinSleep

SpecTwin == InitTwin /\ [][NextTwin]_vars

-----------------------------------------------------------------------------
(* A table encoded as records and rebuilt from them                        *)

MaxCols == 2
MaxRows == 2

ColumnNames == {"mw", "fuel_type", "timestamp"}
Cells == {StrVal("Gas"), NaN}

RECURSIVE SeqsOfLen(_, _)
SeqsOfLen(S, n) ==
    IF n = 0 THEN {<<>>}
    ELSE {<<x>> \o s : x \in S, s \in SeqsOfLen(S, n - 1)}

\* the tables of c columns: a table has a row only if it has a column
TablesOfWidth(c) ==
    {Table(columns, rows) :
        columns \in SeqsOfLen(ColumnNames, c),
        rows \in UNION {SeqsOfLen(SeqsOfLen(Cells, c), r) :
                           r \in 0..(IF c = 0 THEN 0 ELSE MaxRows)}}

Tables == UNION {TablesOfWidth(c) : c \in 0..MaxCols}

InitRecords ==
    /\ given \in Tables
    /\ listed = <<>>
    /\ rebuilt = EmptyTable
    /\ stage = "table"
    /\ CallIdle
    /\ SnakeIdle
    /\ TwinIdle
    /\ HvacIdle
    /\ HelperIdle

\* _format_output(given, "json")
Encode ==
    /\ stage = "table"
    /\ listed' = _format_output(given, "json").value
    /\ stage' = "records"
    /\ UNCHANGED <<given, rebuilt, callVars, snakeVars, twinVars, hvacVars, helperVars>>

\* pd.DataFrame.from_records of the records
Rebuild ==
    /\ stage = "records"
    /\ rebuilt' = from_records(listed)
    /\ stage' = "rebuilt"
    /\ UNCHANGED <<given, listed, callVars, snakeVars, twinVars, hvacVars, helperVars>>

NextRecords == Encode \/ Rebuild

SpecRecords == InitRecords /\ [][NextRecords]_vars

-----------------------------------------------------------------------------
(* A call of tons_to_mcf_per_hr                                            *)

TonsDrawn == {RatInt(0), RatInt(1), RatInt(100), RatInt(3000), Rat(-5, 2)}
EffDrawn == {RatInt(-1), Rat(-1, 2), RatInt(0), Rat(1, 2), Rat(4, 5), RatInt(1)}
HvDrawn == {HEATING_VALUE_MMBTU_PER_MCF, RatInt(1), Rat(21, 20), RatInt(0)}

InitHvac ==
    /\ hvac_args \in [tons : TonsDrawn, eff : EffDrawn, hv : HvDrawn]
    /\ hvac_result = HvacPending
    /\ CallIdle
    /\ SnakeIdle
    /\ TwinIdle
    /\ RecordsIdle
    /\ HelperIdle

\* tons_to_mcf_per_hr(tons, eff, hv_mmbtu_per_mcf) runs
HvacCall ==
    /\ hvac_result = HvacPending
    /\ hvac_result' = tons_to_mcf_per_hr(hvac_args.tons, hvac_args.eff, hvac_args.hv)
    /\ UNCHANGED <<hvac_args, callVars, snakeVars, twinVars, recordVars, helperVars>>

NextHvac == HvacCall

SpecHvac == InitHvac /\ [][NextHvac]_vars

-----------------------------------------------------------------------------
(* _parse_response on its own: bodies of a few lines under several         *)
(* Content-Type headers                                                    *)

MaxLines == 4

LinesDrawn == {"", "a", "b,c"}
ContentTypesDrawn == {"", "application/json", "Text/CSV"}

RECURSIVE BodiesOfLines(_)
BodiesOfLines(n) ==
    IF n = 0 THEN {""}
    ELSE {line \o "\n" \o body : line \in LinesDrawn, body \in BodiesOfLines(n - 1)}

BodiesDrawn == UNION {BodiesOfLines(n) : n \in 0..MaxLines}

InitDetect ==
    /\ fn = "_parse_response"
    /\ subject \in {Response(200, content_type, text) :
                        content_type \in ContentTypesDrawn, text \in BodiesDrawn}
    /\ answer = NotApplied
    /\ CallIdle
    /\ SnakeIdle
    /\ TwinIdle
    /\ RecordsIdle
    /\ HvacIdle

\* _parse_response(subject): the parser chosen and what it gives
Detect ==
    /\ fn = "_parse_response"
    /\ answer = NotApplied
    /\ answer' = [via |-> IF TreatedAsCsv(subject) THEN "_parse_csv" ELSE "_parse_json",
                  parsed |-> _parse_response(subject)]
    /\ UNCHANGED <<fn, subject, callVars, snakeVars, twinVars, recordVars, hvacVars>>

NextDetect == Detect

SpecDetect == InitDetect /\ [][NextDetect]_vars

-----------------------------------------------------------------------------
(* _parse_json on its own: JSON texts of every top-level shape             *)

MaxMembers == 3

\* two records with different keys, and a third for a second list
RowsText == "{\"a\": 1, \"b\": \"x\"}, {\"b\": 2, \"c\": \"y\"}"
MoreText == "{\"z\": 0}"

\* members of a top-level object: two that hold rows, an empty list, and
\* three that are no list (one of them an object with a list inside)
MembersDrawn ==
    { "\"items\": [" \o RowsText \o "]",
      "\"more\": [" \o MoreText \o "]",
      "\"none\": []",
      "\"count\": 2",
      "\"status\": \"ok\"",
      "\"links\": {\"next\": [" \o MoreText \o "]}" }

RECURSIVE MemberLists(_)
MemberLists(n) ==
    IF n = 0 THEN {""}
    ELSE IF n = 1 THEN MembersDrawn
    ELSE {head \o ", " \o member : head \in MemberLists(n - 1), member \in MembersDrawn}

ObjectsDrawn == {"{" \o members \o "}" : members \in UNION {MemberLists(n) : n \in 0..MaxMembers}}

ListsDrawn == {"[]", "[" \o RowsText \o "]", "[" \o MoreText \o "]", " [" \o RowsText \o ", " \o MoreText \o "]\n"}

ScalarsDrawn == {"\"items\"", "5", "-1.5", "true", "false", "null"}

JsonTextsDrawn == ObjectsDrawn \cup ListsDrawn \cup ScalarsDrawn

InitJson ==
    /\ fn = "_parse_json"
    /\ subject \in JsonTextsDrawn
    /\ answer = NotApplied
    /\ CallIdle
    /\ SnakeIdle
    /\ TwinIdle
    /\ RecordsIdle
    /\ HvacIdle

\* _parse_json(subject)
LoadJson ==
    /\ fn = "_parse_json"
    /\ answer = NotApplied
    /\ answer' = [via |-> "_parse_json", parsed |-> _parse_json(subject)]
    /\ UNCHANGED <<fn, subject, callVars, snakeVars, twinVars, recordVars, hvacVars>>

NextJson == LoadJson

SpecJson == InitJson /\ [][NextJson]_vars

-----------------------------------------------------------------------------
(* _normalize_gen_by_fuel on its own: fetched tables whose column names    *)
(* are normalised already and differ from one another                      *)

\* the names column_map reads and writes, and one it does not know
FetchedNames ==
    {"datetime_beginning_utc", "timestamp", "datetime_beginning_ept", "timestamp_ept",
     "fueltype", "fuel_type", "mw", "area"}

FetchedCell == StrVal("2024-01-01T00:00:00")

Distinct(columns) ==
    \A c, k \in 1..Len(columns) : columns[c] = columns[k] => c = k

FetchedTables ==
    {Table(columns, [r \in 1..n |-> [c \in 1..Len(columns) |-> FetchedCell]]) :
        columns \in {cs \in UNION {SeqsOfLen(FetchedNames, c) : c \in 0..MaxCols} : Distinct(cs)},
        n \in 0..MaxRows}

InitRename ==
    /\ fn = "_normalize_gen_by_fuel"
    /\ subject \in {df \in FetchedTables : df.columns = <<>> => df.rows = <<>>}
    /\ answer = NotApplied
    /\ CallIdle
    /\ SnakeIdle
    /\ TwinIdle
    /\ RecordsIdle
    /\ HvacIdle

\* _normalize_gen_by_fuel(subject)
Rename ==
    /\ fn = "_normalize_gen_by_fuel"
    /\ answer = NotApplied
    /\ answer' = [via |-> "_normalize_gen_by_fuel", parsed |-> _normalize_gen_by_fuel(subject)]
    /\ UNCHANGED <<fn, subject, callVars, snakeVars, twinVars, recordVars, hvacVars>>

NextRename == Rename

SpecRename == InitRename /\ [][NextRename]_vars

-----------------------------------------------------------------------------
(* Properties of the retry loop and of the calls                           *)

\* C1, as the specification states it: whenever output_format is not one of
\* the three recognized values, no HTTP GET has been issued at any point of the
\* call, and the call ends in a ValueError.  (The code refutes this.)
C1_UnknownFormatNoGet ==
    output_format \notin RecognizedFormats =>
        /\ Gets(frame) = 0
        /\ pc = "done" => outcome.kind = "ValueError"

\* no GET of the log was answered by a response the loop returned
AllFailed == \A n \in 1..Len(frame.log) : frame.log[n] # GetEvent(1)

\* the error a failed attempt observes in the transport's answer
ErrorSeen(reply) ==
    IF reply.kind = "error" THEN reply.exc ELSE HttpError(reply.status)

\* C2: for every max_retries >= 1, when every GET fails the loop issues exactly
\* max_retries GETs, never more and never fewer, and then raises
\* PJMDataFetchError whose cause is the error of the last attempt.
C2_ExhaustedAfterMaxAttempts ==
    retry_config.max_retries >= 1 =>
        /\ Gets(frame) <= retry_config.max_retries
        /\ (frame.at # "idle" /\ AllFailed /\ Gets(frame) < retry_config.max_retries)
              => pc = "get" /\ outcome = Pending
        /\ (pc = "done" /\ frame.at # "idle" /\ AllFailed) =>
              /\ Gets(frame) = retry_config.max_retries
              /\ outcome = Raised("PJMDataFetchError", FetchError, ErrorSeen(frame.wire))

C2_Witness ==
    /\ pc = "done"
    /\ frame.at = "raised"
    /\ Gets(frame) = MaxRetries
    /\ frame.last_exc = "ConnectionError"

\* the log is a GET, a sleep, a GET, a sleep, ...: every sleep lies between the
\* failed GET before it and the next GET
Alternates(log) ==
    \A n \in 1..Len(log) :
        /\ log[n].e = (IF n % 2 = 1 THEN "GET" ELSE "sleep")
        /\ (log[n].e = "GET" /\ n < Len(log)) => log[n] = GetEvent(0)

\* C3, as the specification states it: for every backoff_factor >= 0 the sleep
\* after the failed attempt k is backoff_factor * 2^k.  (Refuted for a
\* backoff_factor of 0.)
C3_SleepIsBackoffTimesPower ==
    \A n \in 1..Len(Sleeps(frame)) :
        Sleeps(frame)[n] = retry_config.backoff_factor * Pow2(n - 1)

\* C3, amended: every failed attempt that is not the last is followed by one
\* sleep before the next GET; for a positive backoff_factor the sleep after
\* attempt k is backoff_factor * 2^k, and for a backoff_factor of 0 it is one
\* second.  Two failures then a success under max_retries = 3 and
\* backoff_factor = 1.0 give the sleeps 1 s, 2 s and return the response.
C3_SleepIsBackoffOrOneSecond ==
    /\ Alternates(frame.log)
    /\ \A n \in 1..Len(Sleeps(frame)) :
          Sleeps(frame)[n] = IF retry_config.backoff_factor > 0
                             THEN retry_config.backoff_factor * Pow2(n - 1)
                             ELSE 1000
    /\ (/\ retry_config = [max_retries |-> 3, backoff_factor |-> 1000]
        /\ frame.at = "returned"
        /\ Gets(frame) = 3)
          => /\ Sleeps(frame) = <<1000, 2000>>
             /\ frame.response = frame.wire
             /\ frame.wire.status < 400

C3_Witness ==
    /\ retry_config = [max_retries |-> 3, backoff_factor |-> 1000]
    /\ frame.at = "returned"
    /\ Sleeps(frame) = <<1000, 2000>>

\* C4: the first attempt whose response has a status below 400 ends the loop:
\* that response is the one returned, and its GET is the last event of the
\* call, whatever attempts remain.
C4_FirstSuccessEndsLoop ==
    /\ (frame.wire.kind = "response" /\ frame.wire.status < 400) =>
          /\ frame.at = "returned"
          /\ frame.response = frame.wire
          /\ frame.log[Len(frame.log)] = GetEvent(1)
    /\ \A n \in 1..(Len(frame.log) - 1) : frame.log[n] # GetEvent(1)
    /\ frame.at = "returned" =>
          /\ frame.wire.kind = "response" /\ frame.wire.status < 400
          /\ pc \in {"process", "done"}

C4_Witness ==
    /\ pc = "done"
    /\ frame.at = "returned"
    /\ frame.wire.status = 399
    /\ Gets(frame) = 2
    /\ retry_config.max_retries = 3

\* the instant an argument of fetch_gen_by_fuel stands for
GivenInstant(arg) == IF arg.t = "datetime" THEN arg.items ELSE ParseIso(arg.s)

\* the ValueError of one of the two argument checks
InvalidArgument ==
    outcome.kind = "ValueError" /\ outcome.msg \in {RangeError, FormatError}

\* C5: fetch_gen_by_fuel with start and end both given: an end earlier than
\* the start raises ValueError with no GET issued; otherwise (an end equal to
\* the start included) the call goes on to the GET, and with a recognized
\* output_format it raises no ValueError of an argument check.
C5_DateRange ==
    (op = "fetch_gen_by_fuel" /\ start # Absent /\ end # Absent /\ pc # "call") =>
        IF TsBefore(GivenInstant(end), GivenInstant(start))
        THEN /\ pc = "done"
             /\ outcome = Raised("ValueError", RangeError, None)
             /\ frame = NotEntered
             /\ Gets(frame) = 0
        ELSE /\ frame.at # "idle"
             /\ ~(outcome.kind = "ValueError" /\ outcome.msg = RangeError)
             /\ retry_config.max_retries >= 1 =>
                   Gets(frame) >= 1 \/ (pc = "get" /\ frame.at = "request")
             /\ output_format \in RecognizedFormats => ~InvalidArgument

C5_Witness ==
    /\ op = "fetch_gen_by_fuel"
    /\ start = DatetimeArg(<<2024, 1, 1, 12, 30, 0>>)
    /\ end = start
    /\ output_format = "json"
    /\ pc = "done"
    /\ outcome.kind = "returned"
    /\ Gets(frame) = 1

\* bodies that are neither CSV nor JSON: an array that never closes, and a
\* data line with more fields than the header
MalformedBodies == {"{\"items\": [", "a,b\n1,2\n3,4,5\n"}

ParseFailed == outcome.kind = "PJMDataFetchError" /\ outcome.msg = ParseError

\* C6: when a GET is answered with a status below 400 and a body that cannot
\* be parsed, the call raises PJMDataFetchError wrapping the parse error, and
\* the GET that fetched the body is the last event of the call: no further GET
\* and no sleep follows it.
C6_ParseFailureNotRetried ==
    /\ (pc = "done" /\ frame.at = "returned" /\ frame.response.text \in MalformedBodies)
          => /\ ParseFailed
             /\ outcome.cause \in {"JSONDecodeError", "ParserError"}
    /\ frame.response # NoResponse =>
          /\ frame.at = "returned"
          /\ frame.log[Len(frame.log)] = GetEvent(1)
    /\ ParseFailed =>
          /\ pc = "done"
          /\ frame.at = "returned"
          /\ frame.log[Len(frame.log)] = GetEvent(1)
          /\ Cardinality({n \in 1..Len(frame.log) : frame.log[n] = GetEvent(1)}) = 1
          /\ Gets(frame) = frame.attempt + 1
          /\ Len(Sleeps(frame)) = Gets(frame) - 1

C6_Witness ==
    /\ ParseFailed
    /\ outcome.cause = "JSONDecodeError"
    /\ frame.response.status = 200
    /\ Gets(frame) = 2

\* C7: two invocations whose transports differ only in how an attempt fails
\* (a 4xx status, a 5xx status or a transport error) issue the same GETs and
\* the same sleeps in the same order and end alike, returning the same
\* response or raising; a 4xx never ends the loop while attempts remain.
C7_FailuresHandledAlike ==
    /\ frame.log = twin.log
    /\ frame.at = twin.at
    /\ frame.attempt = twin.attempt
    /\ frame.response = twin.response
    /\ (frame.last_exc = None) = (twin.last_exc = None)
    /\ \A f \in {frame, twin} :
          (f.wire.kind = "response" /\ f.wire.status \in 400..499 /\ f.at = "raised")
              => Gets(f) = retry_config.max_retries

C7_Witness ==
    /\ frame.at = "raised"
    /\ frame.wire.status = 400
    /\ twin.wire.kind = "error"
    /\ frame.last_exc # twin.last_exc
    /\ Gets(frame) = MaxRetries
    /\ Len(Sleeps(twin)) = MaxRetries - 1

\* the table the end-to-end scenario expects
EndToEndTable ==
    Table(<<"timestamp", "fuel_type", "mw">>,
          << <<TsVal(<<2024, 1, 1, 0, 0, 0>>), StrVal("Gas"), StrVal("100.5")>> >>)

\* C8, as the specification states it: answered with status 200 and the JSON
\* body of the end-to-end scenario, fetch_gen_by_fuel with the dataframe output
\* returns one row with the columns timestamp, fuel_type and mw.  (The code
\* refutes this.)
C8_EndToEndRow ==
    (/\ op = "fetch_gen_by_fuel"
     /\ output_format = "dataframe"
     /\ pc = "done"
     /\ frame.at = "returned"
     /\ frame.response = Response(200, "application/json", EndToEndBody))
        => /\ outcome.kind = "returned"
           /\ outcome.value = EndToEndTable

\* C9, as the specification states it: for every table, zero rows included,
\* the table rebuilt from its records has the same set of column names and the
\* same number of rows.  (Refuted by a table with columns and no row.)
C9_RoundTripKeepsShape ==
    stage = "rebuilt" =>
        /\ ColumnSet(rebuilt) = ColumnSet(given)
        /\ Len(rebuilt.rows) = Len(given.rows)

\* C9, amended: there is one record per row, and the rebuilt table has the
\* same number of rows; with at least one row it has the same set of column
\* names, and with no row the records are the empty list and the rebuilt table
\* has no column.
C9_RoundTripKeepsRows ==
    /\ stage # "table" => Len(listed) = Len(given.rows)
    /\ stage = "rebuilt" =>
          /\ Len(rebuilt.rows) = Len(given.rows)
          /\ Len(given.rows) >= 1 => ColumnSet(rebuilt) = ColumnSet(given)
          /\ Len(given.rows) = 0 => listed = <<>> /\ rebuilt.columns = <<>>

C9_Witness ==
    /\ stage = "rebuilt"
    /\ given.columns = <<"timestamp", "mw">>
    /\ Len(given.rows) = MaxRows
    /\ given.rows[1][2] = NaN
    /\ rebuilt = given

\* C10: _snake_case is idempotent; its result holds no uppercase letter, no
\* space and no hyphen, and neither starts nor ends with an underscore;
\* "FuelType" becomes "fuel_type".
C10_SnakeCaseIdempotent ==
    /\ once # None =>
          /\ CharsOf(once) \cap (CharsOf(UpperChars) \cup {" ", "-"}) = {}
          /\ once # "" => Char(once, 1) # "_" /\ Char(once, Len(once)) # "_"
    /\ twice # None => twice = once
    /\ (name = "FuelType" /\ once # None) => once = "fuel_type"

C10_Witness ==
    /\ name = "FuelType"
    /\ once = "fuel_type"
    /\ twice = "fuel_type"

\* C11: tons_to_mcf_per_hr raises ValueError for every eff <= 0, zero
\* included, before any conversion is called; for every eff > 0 it calls
\* tons_to_btuh, btuh_to_mmbtuh and mmbtu_to_mcf in this order and returns
\* tons * 12000 / 1000000 / eff / hv (the division by a heating value of 0 is
\* the ZeroDivisionError of mmbtu_to_mcf).
C11_EfficiencyGuard ==
    hvac_result # HvacPending =>
        IF hvac_args.eff.n <= 0
        THEN hvac_result.kind = "ValueError" /\ hvac_result.calls = <<>>
        ELSE /\ hvac_result.calls = <<"tons_to_btuh", "btuh_to_mmbtuh", "mmbtu_to_mcf">>
             /\ IF hvac_args.hv.n = 0
                THEN hvac_result.kind = "ZeroDivisionError"
                ELSE /\ hvac_result.kind = "returned"
                     /\ RatMul(hvac_result.value, RatMul(hvac_args.eff, hvac_args.hv))
                            = RatMul(hvac_args.tons, Rat(12000, 1000000))

C11_Witness ==
    /\ hvac_args = [tons |-> RatInt(3000), eff |-> RatInt(1), hv |-> Rat(1035, 1000)]
    /\ hvac_result.kind = "returned"
    /\ hvac_result.value = [n |-> 800, d |-> 23]

\* the lines of a body that are not empty, in order
NonEmptyLines(text) == SelectSeq(SplitLines(text), LAMBDA line : line # "")

\* one of the lines holds a comma
AnyComma(lines) == \E n \in 1..Len(lines) : Contains(lines[n], ",")

\* C12, as the specification states it: a body is treated as CSV exactly when
\* the Content-Type mentions csv or one of the first three non-empty lines of
\* the body holds a comma; blank lines inside the body do not count among the
\* three.  (The code refutes this.)
C12_FirstThreeNonEmptyLines ==
    (fn = "_parse_response" /\ answer # NotApplied) =>
        ((answer.via = "_parse_csv")
            <=> \/ Contains(LowerStr(subject.content_type), "csv")
                \/ AnyComma(Take(NonEmptyLines(subject.text), 3)))

\* the elements the claim selects: those of the first list among the member
\* values of an object, those of a list; none otherwise
RECURSIVE FirstListFrom(_, _)
FirstListFrom(items, n) ==
    IF n > Len(items) THEN <<>>
    ELSE IF items[n].v.t = "list" THEN items[n].v.items
    ELSE FirstListFrom(items, n + 1)

SelectedElements(data) ==
    IF data.t = "dict" THEN FirstListFrom(data.items, 1)
    ELSE IF data.t = "list" THEN data.items
    ELSE <<>>

\* row r of df is element r: every key of the element is a column holding
\* the element's value, and the other columns of the row are empty
RowIsElement(df, r, element) ==
    /\ \A m \in 1..Len(element.items) : element.items[m].k \in ColumnSet(df)
    /\ \A c \in 1..Len(df.columns) :
          df.rows[r][c] = IF DictHas(element.items, df.columns[c])
                          THEN DictGet(element.items, df.columns[c])
                          ELSE NaN

RowsAreElements(df, elements) ==
    /\ Len(df.rows) = Len(elements)
    /\ \A r \in 1..Len(elements) : RowIsElement(df, r, elements[r])
    /\ elements = <<>> => df = EmptyTable

GetEnded == frame.at \in {"returned", "raised"}

\* C14, as the specification states it: when _get has ended, the number of
\* sleeps is at most the number of GETs minus one.  (Refuted for
\* max_retries = 0, where there is no GET and no sleep.)
C14_SleepsBelowGets ==
    (pc = "done" /\ GetEnded) => Len(Sleeps(frame)) <= Gets(frame) - 1

\* every sleep of the log has a GET right before it, and a GET right after it
\* or, the call still running, the next GET about to be issued
SleepsBetweenGets ==
    \A n \in Events(frame.log, "sleep") :
        /\ n > 1
        /\ frame.log[n - 1].e = "GET"
        /\ IF n < Len(frame.log) THEN frame.log[n + 1].e = "GET"
           ELSE pc = "get" /\ frame.at = "request"

\* what C14 asks of every state of a call
GetWithinBudget ==
    /\ Gets(frame) <= retry_config.max_retries
    /\ SleepsBetweenGets
    /\ Len(Sleeps(frame)) <= Gets(frame)
    /\ (GetEnded /\ Gets(frame) >= 1) => Len(Sleeps(frame)) <= Gets(frame) - 1
    /\ Gets(frame) = 0 => Len(Sleeps(frame)) = 0
    /\ (GetEnded /\ frame.log # <<>>) => frame.log[Len(frame.log)].e = "GET"
    /\ (frame.at = "returned") => pc \in {"process", "done"} /\ frame.response.kind = "response"
    /\ (frame.at = "raised") => pc = "done" /\ outcome = FetchFailure(frame)
    /\ (frame.at # "idle" /\ retry_config.max_retries = 0)
          => frame.at = "raised" /\ frame.log = <<>>

\* C14, amended: for every transport behaviour and every max_retries >= 0 the
\* call ends, _get having returned a response or raised PJMDataFetchError
\* after at most max_retries GETs; every sleep lies between two GETs and none
\* follows the last GET, so that the sleeps are at most the GETs minus one
\* whenever a GET was issued and none otherwise; with max_retries = 0 the
\* call raises PJMDataFetchError without a GET.
C14_EndsWithinBudget == []GetWithinBudget /\ <>(pc = "done")

\* three failed GETs with the two sleeps between them, and the final raise
C14_Witness ==
    /\ pc = "done"
    /\ frame.at = "raised"
    /\ retry_config.max_retries = 3
    /\ Gets(frame) = 3
    /\ Len(Sleeps(frame)) = 2
    /\ outcome = FetchFailure(frame)

\* the names column_map renames
MapSources == {column_map[n][1] : n \in 1..Len(column_map)}

\* C15, as the specification states it: for every fetched table whose
\* normalised column names differ from one another, _normalize_gen_by_fuel
\* gives a table with as many columns and rows, column names that differ from
\* one another, and every column the map does not name under its old name.
\* (The code refutes this.)
C15_RenamingKeepsNamesUnique ==
    (/\ fn = "_normalize_gen_by_fuel"
     /\ answer # NotApplied
     /\ Distinct(_normalize_columns(subject).columns)) =>
        /\ answer.parsed.ok
        /\ Len(answer.parsed.df.columns) = Len(subject.columns)
        /\ Len(answer.parsed.df.rows) = Len(subject.rows)
        /\ Distinct(answer.parsed.df.columns)
        /\ \A c \in 1..Len(subject.columns) :
              _normalize_columns(subject).columns[c] \notin MapSources
                  => answer.parsed.df.columns[c] = _normalize_columns(subject).columns[c]

=============================================================================
